---- MODULE Spec2Model ----
(***************************************************************************)
(* The agent execution loop of backend/agent/run.py (run_agent): the       *)
(* credit gate, the tool set-up, the while-loop of model-session attempts, *)
(* the per-chunk error and termination-marker detection and the three      *)
(* exception boundaries, as a state machine; and, each under a            *)
(* specification of its own, the tool methods of backend/agent/tools that  *)
(* a run calls: ask_human, update_plan_step, the browser action and        *)
(* create_chat_completion.                                                 *)
(***************************************************************************)
EXTENDS Integers, Sequences, FiniteSets, TLC

\* ------------------------------------------------------------------------
\* Bounds of the model
\* ------------------------------------------------------------------------
\* longest stream of chunks one model session hands out
MaxLen == 3
\* most tool calls running at the same time
MaxCalls == 3
\* most steps of a stored plan
MaxSteps == 2
\* most model sessions started in one recorded run
MaxAttempts == 2
\* most chunks all the streams of one recorded run hold together
MaxChunks == 4
\* longest assistant text, in tokens, of the marker-scan specification
MaxTextLen == 6

BSeq(S, n) == UNION {[1..k -> S] : k \in 0..n}

\* ------------------------------------------------------------------------
\* Text and the termination markers
\* ------------------------------------------------------------------------
\* A text is a sequence of tokens; a closing tag is two tokens long, so a tag
\* can be cut in two by a chunk boundary.
Tokens == {"</", "ask>", "complete>", "web-browser-takeover>"}

AskTag == <<"</", "ask>">>
CompleteTag == <<"</", "complete>">>
TakeoverTag == <<"</", "web-browser-takeover>">>

\* Python's `tag in text` on strings: tag occurs as a contiguous slice.
Contains(text, tag) ==
    \E i \in 1..(Len(text) - Len(tag) + 1) :
        SubSeq(text, i, i + Len(tag) - 1) = tag

LastToolCalls == {"none", "ask", "complete", "web-browser-takeover"}
StopTools == {"ask", "complete", "web-browser-takeover"}

\* ------------------------------------------------------------------------
\* Chunks (fragments)
\* ------------------------------------------------------------------------
\* mapping : isinstance(chunk, dict)
\* type    : chunk.get('type')        ("none" when the key is missing)
\* status  : chunk.get('status')      ("none" when the key is missing)
\* message : chunk.get('message')     (names where the chunk was made)
\* content : the 'content' entry:
\*    form  "absent" (no such key), "null" (None), "str" (a string),
\*          "obj" (an already decoded dict)
\*    json  for form "str": what json.loads makes of the string:
\*          "object", "array" or "invalid" (JSONDecodeError)
\*    inner the nested 'content' entry of the decoded dict: "str", "nonstr"
\*          (a list of parts, a number) or "absent"
\*    text  the characters carried (the nested text, or the raw string when
\*          the string is not JSON)
Content(form, json, inner, text) ==
    [form |-> form, json |-> json, inner |-> inner, text |-> text]

NoContent == Content("absent", "na", "absent", <<>>)

Chunk(mapping, type, status, message, content) ==
    [mapping |-> mapping, type |-> type, status |-> status,
     message |-> message, content |-> content]

\* a bare string or None read from the stream
NonMapping == Chunk(FALSE, "none", "none", "upstream", NoContent)
\* no chunk is bound to the loop variable
NoChunk == Chunk(FALSE, "none", "none", "unbound", NoContent)

StatusError == Chunk(TRUE, "status", "error", "upstream", NoContent)
\* a lifecycle status chunk whose payload happens to carry a closing tag
StatusOther == Chunk(TRUE, "status", "running", "upstream",
                     Content("str", "object", "str", CompleteTag))
Assistant(content) == Chunk(TRUE, "assistant", "none", "upstream", content)
JsonText(text) == Content("str", "object", "str", text)

AssistantPlain == Assistant(JsonText(<<"</">>))
AssistantComplete == Assistant(JsonText(CompleteTag))
AssistantAsk == Assistant(Content("obj", "na", "str", CompleteTag \o AskTag))
AssistantBadJson == Assistant(Content("str", "invalid", "absent", CompleteTag))

\* the chunks a model session's stream is made of in the loop specification
Chunks == {NonMapping, StatusError, StatusOther, AssistantPlain,
           AssistantComplete, AssistantAsk, AssistantBadJson}

\* a stream: the chunks it hands out, then StopAsyncIteration, or an
\* exception when `fails`
Stream(items, fails) == [items |-> items, fails |-> fails]
NoStream == Stream(<<>>, FALSE)
Streams == {Stream(s, f) : s \in BSeq(Chunks, MaxLen), f \in BOOLEAN}

\* the fragments run_agent makes itself
CreditsError == Chunk(TRUE, "status", "error", "credits", NoContent)
StreamingError == Chunk(TRUE, "status", "error", "streaming", NoContent)
ThreadError == Chunk(TRUE, "status", "error", "thread", NoContent)
\* what run_thread returns instead of a stream when it fails at once: a dict
\* with status "error", with or without a 'type' entry
ErrorResponses == {Chunk(TRUE, t, "error", "run_thread", NoContent) :
                       t \in {"status", "none"}}

\* ------------------------------------------------------------------------
\* Per-chunk detection (the body of the `async for`)
\* ------------------------------------------------------------------------
\* isinstance(chunk, dict) and chunk.get('type') == 'status'
\*                         and chunk.get('status') == 'error'
IsErrorChunk(c) == c.mapping /\ c.type = "status" /\ c.status = "error"

\* (mutant) the elif chain with complete tested before ask
XmlTool_CompleteFirst(text) ==
    IF Contains(text, CompleteTag) THEN "complete"
    ELSE IF Contains(text, AskTag) THEN "ask"
    ELSE IF Contains(text, TakeoverTag) THEN "web-browser-takeover"
    ELSE "none"

\* the if/elif chain choosing xml_tool; "none" when no closing tag is in the
\* text (the outer `if` is then false and last_tool_call is left alone)
XmlTool(text) ==
    IF Contains(text, AskTag) THEN "ask"
    ELSE IF Contains(text, CompleteTag) THEN "complete"
    ELSE IF Contains(text, TakeoverTag) THEN "web-browser-takeover"
    ELSE "none"

\* how decoding the 'content' entry ends: json.loads of a string that is
\* not JSON raises JSONDecodeError; a decoded list, or None, has no .get and
\* raises AttributeError; otherwise a dict is at hand
DecodeOutcome(content) ==
    IF content.form = "str" /\ content.json = "invalid" THEN "JSONDecodeError"
    ELSE IF content.form = "str" /\ content.json = "array" THEN "AttributeError"
    ELSE IF content.form = "null" THEN "AttributeError"
    ELSE "dict"

\* (mutant) last_tool_call assigned for every scanned assistant text, so a
\* later chunk without a marker clears it
ScanChunk_Reset(c, ltc) ==
    IF c.type = "assistant" /\ c.content.form # "absent"
    THEN IF /\ DecodeOutcome(c.content) = "dict"
            /\ c.content.inner = "str"
         THEN XmlTool(c.content.text)
         ELSE ltc
    ELSE ltc

\* (mutant) when the decode fails, the raw string is scanned instead
ScanChunk_RawScan(c, ltc) ==
    IF c.type = "assistant" /\ c.content.form # "absent"
    THEN IF XmlTool(c.content.text) # "none"
         THEN XmlTool(c.content.text)
         ELSE ltc
    ELSE ltc

\* (mutant) the scan does not ask for the type of the chunk
ScanChunk_AnyType(c, ltc) ==
    IF c.content.form # "absent"
    THEN IF /\ DecodeOutcome(c.content) = "dict"
            /\ c.content.inner = "str"
            /\ XmlTool(c.content.text) # "none"
         THEN XmlTool(c.content.text)
         ELSE ltc
    ELSE ltc

\* (mutant) last_tool_call is assigned once only: the first marker stays
ScanChunk_FirstWins(c, ltc) ==
    IF c.type = "assistant" /\ c.content.form # "absent" /\ ltc = "none"
    THEN IF /\ DecodeOutcome(c.content) = "dict"
            /\ c.content.inner = "str"
            /\ XmlTool(c.content.text) # "none"
         THEN XmlTool(c.content.text)
         ELSE ltc
    ELSE ltc

\* last_tool_call after the marker scan of one mapping chunk; both except
\* clauses only log, so a failed decode leaves last_tool_call as it was
ScanChunk(c, ltc) ==
    IF c.type = "assistant" /\ c.content.form # "absent"
    THEN IF /\ DecodeOutcome(c.content) = "dict"
            /\ c.content.inner = "str"
            /\ XmlTool(c.content.text) # "none"
         THEN XmlTool(c.content.text)
         ELSE ltc
    ELSE ltc

\* ------------------------------------------------------------------------
\* State
\* ------------------------------------------------------------------------
\* the tools run_agent registers, in order
ToolNames == <<"SandboxVisionTool", "SandboxVisualizationTool", "PlanningTool",
               "AskHumanTool", "ChatCompletionTool", "OCRTool",
               "SpeechToTextTool", "DocumentProcessingTool", "SystemInfoTool",
               "AnthropicBrowserTool", "CodeInterpreterTool">>

\* the model names of the runs checked: the default of run_agent, and one
\* that names the provider
ModelNames == {"claude-3-opus-20240229", "Anthropic/claude-3-opus"}

\* "anthropic" in model_name.lower()
NamesAnthropic(model_name) == model_name = "Anthropic/claude-3-opus"

\* what run_agent hands on to run_thread of its arguments
Requests ==
    {[project_id |-> "p1", thread_id |-> "t1", message |-> "hello",
      model_name |-> m, generation |-> "defaults"] : m \in ModelNames}

\* the tool_config literal of the run_thread call
ToolPolicy ==
    [execute_tools |-> TRUE, execute_on_stream |-> TRUE,
     tool_execution_strategy |-> "parallel",
     xml_adding_strategy |-> "user_message"]

VARIABLES
    request,             \* project_id, thread_id, message, model_name and
                         \* the generation parameters of the call
    include_sample_response,  \* thread_manager.include_sample_response
    user_id,             \* the user_id argument: "none" or a user
    rapid_api_key,       \* config.RAPID_API_KEY is set
    pc,                  \* where run_agent stands
    continue_execution,  \* the loop flag
    last_tool_call,      \* marker seen in this attempt, or "none"
    error_detected,      \* an error chunk was seen in this attempt
    chunk,               \* the chunk read and not yet yielded
    stream,              \* what is left of the open session's stream
    registry,            \* tools registered with the thread manager
    delivered,           \* history: what the caller has been yielded
    sessions,            \* history: the model sessions started
    billing_calls,       \* history: calls of check_billing_status
    stop,                \* history: why the run ended
    recording,           \* histories are kept (off for liveness checking)
    calls,               \* the tool calls in progress: each one's arguments,
                         \* position, local variables and result
    thread,              \* the messages added to the thread, in order
    plan_file,           \* the plan file of the sandbox
    browser,             \* the page fields of the AnthropicBrowserTool
    db                   \* the rows of the threads and messages tables

vars == <<request, include_sample_response, user_id, rapid_api_key, pc, continue_execution, last_tool_call,
          error_detected, chunk, stream, registry, delivered, sessions,
          billing_calls, stop, recording,
          calls, thread, plan_file, browser, db>>

args == <<request, user_id, rapid_api_key, recording>>
manager == <<registry, include_sample_response>>
locals == <<continue_execution, last_tool_call, error_detected, chunk, stream>>
tools == <<calls, thread, plan_file, browser, db>>

\* the run is over: the generator returned, or an exception left it
Terminal == {"done", "raised"}

\* (mutant) a later attempt is sent a continuation prompt as its message
RunThreadCall_Continuation ==
    [request |-> IF sessions = <<>> THEN request
                 ELSE [request EXCEPT !.message = "continue"],
     tool_config |-> ToolPolicy]

\* the arguments of one run_thread call
RunThreadCall == [request |-> request, tool_config |-> ToolPolicy]

\* one started session: the run_thread call, how run_thread answered
\* ("stream", "error_response", "raised"), the stream it gave, the chunks
\* pulled so far and how the pulling ended ("open", "exhausted", "raised",
\* "abandoned")
Session(start, str) ==
    [call |-> RunThreadCall, start |-> start, stream |-> str,
     pulled |-> 0, ended |-> "open"]

\* the chunks of all the streams handed out so far
RECURSIVE TotalChunks(_)
TotalChunks(ss) ==
    IF ss = <<>> THEN 0
    ELSE Len(ss[Len(ss)].stream.items) + TotalChunks(SubSeq(ss, 1, Len(ss) - 1))

Yield(f) == delivered' = IF recording THEN Append(delivered, f) ELSE delivered

Record(s) == sessions' = IF recording THEN Append(sessions, s) ELSE sessions

\* note on the last session that one more chunk was pulled, or how it ended
Pulled(n, e) ==
    sessions' = IF recording
                THEN [sessions EXCEPT ![Len(sessions)].pulled = @ + n,
                                      ![Len(sessions)].ended = e]
                ELSE sessions

\* no plan file
NoPlan == [exists |-> FALSE, steps |-> <<>>]
\* the page fields as __init__ leaves them (None each)
NoPage == [current_url |-> "none", current_page_content |-> "none",
           current_page_title |-> "none"]
\* empty tables
NoRows == [threads |-> {}, messages |-> {}]

\* no tool is being called
ToolsIdle ==
    /\ calls = <<>>
    /\ thread = <<>>
    /\ plan_file = NoPlan
    /\ browser = NoPage
    /\ db = NoRows

Init ==
    /\ request \in Requests
    /\ include_sample_response = FALSE
    /\ user_id \in {"none", "u1"}
    /\ rapid_api_key \in BOOLEAN
    /\ pc = "gate"
    /\ continue_execution = TRUE
    /\ last_tool_call = "none"
    /\ error_detected = FALSE
    /\ chunk = NoChunk
    /\ stream = NoStream
    /\ registry = <<>>
    /\ delivered = <<>>
    /\ sessions = <<>>
    /\ billing_calls = 0
    /\ stop = "none"
    /\ recording = TRUE
    /\ ToolsIdle

\* ------------------------------------------------------------------------
\* run_agent, step by step
\* ------------------------------------------------------------------------
\* `if user_id:` is false for None and for "": check_billing_status is not
\* called
GateSkipped ==
    /\ user_id = "none"
    /\ pc' = "setup"
    /\ UNCHANGED <<billing_calls, delivered, stop>>

\* billing_status["has_credits"] is true
GatePasses ==
    /\ user_id # "none"
    /\ billing_calls' = billing_calls + 1
    /\ pc' = "setup"
    /\ UNCHANGED <<delivered, stop>>

\* (mutant) the `return` after the yield is missing
GateRejects_NoReturn ==
    /\ user_id # "none"
    /\ billing_calls' = billing_calls + 1
    /\ Yield(CreditsError)
    /\ pc' = "setup"
    /\ stop' = "authorization"

\* no credits: yield the error fragment and return
GateRejects ==
    /\ user_id # "none"
    /\ billing_calls' = billing_calls + 1
    /\ Yield(CreditsError)
    /\ pc' = "done"
    /\ stop' = "authorization"

\* check_billing_status raises.  The call is outside every try block, so
\* the exception leaves run_agent.
GateRaises ==
    /\ user_id # "none"
    /\ billing_calls' = billing_calls + 1
    /\ pc' = "raised"
    /\ stop' = "escaped"
    /\ UNCHANGED delivered

\* the credit gate
CheckBilling ==
    /\ pc = "gate"
    /\ (GateSkipped \/ GatePasses \/ GateRejects \/ GateRaises)
    /\ UNCHANGED <<args, tools, locals, manager, sessions>>

\* (mutant) one tool is registered a second time
Setup_RegistersTwice ==
    /\ pc = "setup"
    /\ \/ \E k \in 0..(Len(ToolNames) - 1) :
             /\ registry' = SubSeq(ToolNames, 1, k)
             /\ pc' = "raised"
             /\ stop' = "escaped"
             /\ UNCHANGED include_sample_response
       \/ /\ registry' = Append(ToolNames, "PlanningTool")
          /\ rapid_api_key
          /\ pc' = "raised"
          /\ stop' = "escaped"
          /\ UNCHANGED include_sample_response
       \/ /\ registry' = Append(ToolNames, "PlanningTool")
          /\ ~rapid_api_key
          /\ include_sample_response' =
                IF NamesAnthropic(request.model_name)
                THEN include_sample_response ELSE TRUE
          /\ pc' = "loop"
          /\ UNCHANGED stop
    /\ continue_execution' = TRUE
    /\ UNCHANGED <<args, tools, last_tool_call, error_detected, chunk, stream,
                   delivered, sessions, billing_calls>>

\* ThreadManager(), add_tool and the ten register_tool calls, then
\* `if config.RAPID_API_KEY: thread_manager.add_tool(DataProvidersTool)`,
\* a name run.py never imports, then the sample-response switch.  None of
\* it is inside a try block.
Setup ==
    /\ pc = "setup"
    /\ \/ \E k \in 0..(Len(ToolNames) - 1) :
             /\ registry' = SubSeq(ToolNames, 1, k)
             /\ pc' = "raised"
             /\ stop' = "escaped"
             /\ UNCHANGED include_sample_response
       \/ /\ registry' = ToolNames
          /\ rapid_api_key
          /\ pc' = "raised"
          /\ stop' = "escaped"
          /\ UNCHANGED include_sample_response
       \/ /\ registry' = ToolNames
          /\ ~rapid_api_key
          /\ include_sample_response' =
                IF NamesAnthropic(request.model_name)
                THEN include_sample_response ELSE TRUE
          /\ pc' = "loop"
          /\ UNCHANGED stop
    /\ continue_execution' = TRUE
    /\ UNCHANGED <<args, tools, last_tool_call, error_detected, chunk, stream,
                   delivered, sessions, billing_calls>>

\* (mutant) `while True:`
WhileTest_Always ==
    /\ pc = "loop"
    /\ pc' = "start"
    /\ UNCHANGED <<args, tools, locals, manager, delivered, sessions, billing_calls, stop>>

\* `while continue_execution:`
WhileTest ==
    /\ pc = "loop"
    /\ pc' = IF continue_execution THEN "start" ELSE "done"
    /\ UNCHANGED <<args, tools, locals, manager, delivered, sessions, billing_calls, stop>>

\* (mutant) no outer except: the exception of run_thread leaves run_agent
StartRaises_Propagates ==
    /\ Record(Session("raised", NoStream))
    /\ pc' = "raised"
    /\ stop' = "escaped"
    /\ UNCHANGED <<locals, delivered>>

\* run_thread raised: the outer except yields one error fragment and breaks
StartRaises ==
    /\ Record(Session("raised", NoStream))
    /\ Yield(ThreadError)
    /\ pc' = "done"
    /\ stop' = "start_exception"
    /\ UNCHANGED locals

\* (mutant) the `break` after the yield is missing: the loop tries again
StartFails_NoBreak ==
    /\ \E r \in ErrorResponses :
          /\ Record(Session("error_response", NoStream))
          /\ Yield(r)
    /\ pc' = "loop"
    /\ stop' = "start_failure"
    /\ UNCHANGED locals

\* run_thread returned a dict with status "error": yield it and break
StartFails ==
    /\ \E r \in ErrorResponses :
          /\ Record(Session("error_response", NoStream))
          /\ Yield(r)
    /\ pc' = "done"
    /\ stop' = "start_failure"
    /\ UNCHANGED locals

\* run_thread returned a stream: reset the attempt's locals and iterate
StartStreams ==
    /\ \E s \in Streams :
          /\ recording => TotalChunks(sessions) + Len(s.items) <= MaxChunks
          /\ Record(Session("stream", s))
          /\ stream' = s
    /\ last_tool_call' = "none"
    /\ error_detected' = FALSE
    /\ pc' = "read"
    /\ UNCHANGED <<continue_execution, chunk, delivered, stop>>

\* `response = await thread_manager.run_thread(...)` and what follows it
StartSession ==
    /\ pc = "start"
    /\ recording => Len(sessions) < MaxAttempts
    /\ (StartRaises \/ StartFails \/ StartStreams)
    /\ UNCHANGED <<args, tools, manager, billing_calls>>

\* the stream hands out its next chunk
ReadNext ==
    /\ stream.items # <<>>
    /\ chunk' = Head(stream.items)
    /\ stream' = [stream EXCEPT !.items = Tail(@)]
    /\ Pulled(1, "open")
    /\ pc' = "process"
    /\ UNCHANGED <<delivered, stop>>

\* (mutant) the `async for` is left with chunks still in the stream
ReadEnd_Early ==
    /\ ~stream.fails
    /\ Pulled(0, IF stream.items = <<>> THEN "exhausted" ELSE "open")
    /\ pc' = "decide"
    /\ UNCHANGED <<chunk, stream, delivered, stop>>

\* StopAsyncIteration: the `async for` is left normally
ReadEnd ==
    /\ stream.items = <<>>
    /\ ~stream.fails
    /\ Pulled(0, "exhausted")
    /\ pc' = "decide"
    /\ UNCHANGED <<chunk, stream, delivered, stop>>

\* (mutant) the inner except yields but does not break
ReadRaises_NoBreak ==
    /\ stream.items = <<>>
    /\ stream.fails
    /\ Pulled(0, "raised")
    /\ Yield(StreamingError)
    /\ pc' = "loop"
    /\ stop' = "stream_exception"
    /\ UNCHANGED <<chunk, stream>>

\* the stream raises: the inner except yields one error fragment and breaks
ReadRaises ==
    /\ stream.items = <<>>
    /\ stream.fails
    /\ Pulled(0, "raised")
    /\ Yield(StreamingError)
    /\ pc' = "done"
    /\ stop' = "stream_exception"
    /\ UNCHANGED <<chunk, stream>>

\* `async for chunk in response`
ReadChunk ==
    /\ pc = "read"
    /\ (ReadNext \/ ReadEnd \/ ReadRaises)
    /\ UNCHANGED <<args, tools, continue_execution, last_tool_call, error_detected,
                   manager, billing_calls>>

\* (mutant) `continue` before the yield: the error chunk is not forwarded
ProcessErrorChunk_NoYield ==
    /\ IsErrorChunk(chunk)
    /\ error_detected' = TRUE
    /\ pc' = "read"
    /\ chunk' = NoChunk
    /\ UNCHANGED <<last_tool_call, delivered, sessions, stop>>

\* (mutant) `break` on the error chunk: the rest of the stream is not read
ProcessErrorChunk_Break ==
    /\ IsErrorChunk(chunk)
    /\ error_detected' = TRUE
    /\ Yield(chunk)
    /\ pc' = "done"
    /\ stop' = "error"
    /\ chunk' = NoChunk
    /\ UNCHANGED <<last_tool_call, sessions>>

\* an error chunk: note it, forward it, go on with the next chunk
ProcessErrorChunk ==
    /\ IsErrorChunk(chunk)
    /\ error_detected' = TRUE
    /\ Yield(chunk)
    /\ pc' = "read"
    /\ chunk' = NoChunk
    /\ UNCHANGED <<last_tool_call, sessions, stop>>

\* (mutant) the inner except yields its fragment and the loop reads on
ProcessNonMapping_NoBreak ==
    /\ ~IsErrorChunk(chunk)
    /\ ~chunk.mapping
    /\ Yield(StreamingError)
    /\ pc' = "read"
    /\ chunk' = NoChunk
    /\ UNCHANGED <<last_tool_call, error_detected, sessions, stop>>

\* (mutant) a chunk that is no dict is passed on like any other
ProcessNonMapping_Forward ==
    /\ ~IsErrorChunk(chunk)
    /\ ~chunk.mapping
    /\ Yield(chunk)
    /\ pc' = "read"
    /\ chunk' = NoChunk
    /\ UNCHANGED <<last_tool_call, error_detected, sessions, stop>>

\* a chunk that is no dict: chunk.get raises AttributeError inside the inner
\* try, so the chunk is not yielded and the inner except ends the run
ProcessNonMapping ==
    /\ ~IsErrorChunk(chunk)
    /\ ~chunk.mapping
    /\ Pulled(0, "abandoned")
    /\ Yield(StreamingError)
    /\ pc' = "done"
    /\ stop' = "stream_exception"
    /\ chunk' = NoChunk
    /\ UNCHANGED <<last_tool_call, error_detected>>

\* (mutant) the chunk is scanned and kept back, not yielded
ProcessOtherChunk_NoYield ==
    /\ ~IsErrorChunk(chunk)
    /\ chunk.mapping
    /\ last_tool_call' = ScanChunk(chunk, last_tool_call)
    /\ pc' = "read"
    /\ chunk' = NoChunk
    /\ UNCHANGED <<error_detected, delivered, sessions, stop>>

\* the texts of the assistant chunks among items, one after the other
RECURSIVE JoinedText(_)
JoinedText(items) ==
    IF items = <<>> THEN <<>>
    ELSE (IF Head(items).mapping /\ Head(items).type = "assistant"
          THEN Head(items).content.text ELSE <<>>) \o JoinedText(Tail(items))

\* (mutant) the scan is made on the text gathered over the attempt so far
ProcessOtherChunk_Accumulate ==
    /\ ~IsErrorChunk(chunk)
    /\ chunk.mapping
    /\ last_tool_call' =
          LET n == Len(sessions)
              text == IF n = 0 THEN <<>>
                      ELSE JoinedText(SubSeq(sessions[n].stream.items, 1,
                                             sessions[n].pulled))
          IN  IF XmlTool(text) # "none" THEN XmlTool(text)
              ELSE ScanChunk(chunk, last_tool_call)
    /\ Yield(chunk)
    /\ pc' = "read"
    /\ chunk' = NoChunk
    /\ UNCHANGED <<error_detected, sessions, stop>>

\* any other chunk: scan it for a marker, then forward it
ProcessOtherChunk ==
    /\ ~IsErrorChunk(chunk)
    /\ chunk.mapping
    /\ last_tool_call' = ScanChunk(chunk, last_tool_call)
    /\ Yield(chunk)
    /\ pc' = "read"
    /\ chunk' = NoChunk
    /\ UNCHANGED <<error_detected, sessions, stop>>

\* the body of the `async for`
ProcessChunk ==
    /\ pc = "process"
    /\ (ProcessErrorChunk \/ ProcessNonMapping \/ ProcessOtherChunk)
    /\ UNCHANGED <<args, tools, continue_execution, stream, manager, billing_calls>>

\* (mutant) the marker test does not clear continue_execution
EndOfAttempt_NoMarkerStop ==
    /\ pc = "decide"
    /\ IF error_detected
       THEN /\ pc' = "done"
            /\ stop' = "error"
       ELSE /\ pc' = "loop"
            /\ UNCHANGED stop
    /\ UNCHANGED <<args, tools, locals, manager, delivered, sessions, billing_calls>>

\* (mutant) the loop flag is cleared after every attempt
EndOfAttempt_StopAlways ==
    /\ pc = "decide"
    /\ IF error_detected
       THEN /\ pc' = "done"
            /\ stop' = "error"
            /\ UNCHANGED continue_execution
       ELSE /\ continue_execution' = FALSE
            /\ pc' = "loop"
            /\ stop' = "marker"
    /\ UNCHANGED <<args, tools, last_tool_call, error_detected, chunk, stream,
                   manager, delivered, sessions, billing_calls>>

\* (mutant) the marker test comes before the error test
EndOfAttempt_MarkerFirst ==
    /\ pc = "decide"
    /\ IF last_tool_call \in StopTools
       THEN /\ continue_execution' = FALSE
            /\ pc' = "loop"
            /\ stop' = "marker"
       ELSE IF error_detected
       THEN /\ pc' = "done"
            /\ stop' = "error"
            /\ UNCHANGED continue_execution
       ELSE /\ pc' = "loop"
            /\ UNCHANGED <<continue_execution, stop>>
    /\ UNCHANGED <<args, tools, last_tool_call, error_detected, chunk, stream,
                   manager, delivered, sessions, billing_calls>>

\* (mutant) the error branch clears the loop flag before it breaks
EndOfAttempt_ErrorClearsFlag ==
    /\ pc = "decide"
    /\ IF error_detected
       THEN /\ pc' = "done"
            /\ stop' = "error"
            /\ continue_execution' = FALSE
       ELSE IF last_tool_call \in StopTools
       THEN /\ continue_execution' = FALSE
            /\ pc' = "loop"
            /\ stop' = "marker"
       ELSE /\ pc' = "loop"
            /\ UNCHANGED <<continue_execution, stop>>
    /\ UNCHANGED <<args, tools, last_tool_call, error_detected, chunk, stream,
                   manager, delivered, sessions, billing_calls>>

\* after the stream: `if error_detected: break`, then the marker test
EndOfAttempt ==
    /\ pc = "decide"
    /\ IF error_detected
       THEN /\ pc' = "done"
            /\ stop' = "error"
            /\ UNCHANGED continue_execution
       ELSE IF last_tool_call \in StopTools
       THEN /\ continue_execution' = FALSE
            /\ pc' = "loop"
            /\ stop' = "marker"
       ELSE /\ pc' = "loop"
            /\ UNCHANGED <<continue_execution, stop>>
    /\ UNCHANGED <<args, tools, last_tool_call, error_detected, chunk, stream,
                   manager, delivered, sessions, billing_calls>>

Next ==
    \/ CheckBilling
    \/ Setup
    \/ WhileTest
    \/ StartSession
    \/ ReadChunk
    \/ ProcessChunk
    \/ EndOfAttempt

Spec == Init /\ [][Next]_vars

\* The same program with the histories switched off, so that a run of
\* unboundedly many attempts is a cycle of finitely many states.  The loop is
\* a single flow of control that takes its next step whenever it can: the
\* streams are finite and the caller keeps consuming.
LiveInit ==
    /\ request \in Requests
    /\ include_sample_response = FALSE
    /\ user_id \in {"none", "u1"}
    /\ rapid_api_key \in BOOLEAN
    /\ pc = "gate"
    /\ continue_execution = TRUE
    /\ last_tool_call = "none"
    /\ error_detected = FALSE
    /\ chunk = NoChunk
    /\ stream = NoStream
    /\ registry = <<>>
    /\ delivered = <<>>
    /\ sessions = <<>>
    /\ billing_calls = 0
    /\ stop = "none"
    /\ recording = FALSE
    /\ ToolsIdle

LiveSpec == LiveInit /\ [][Next]_vars /\ WF_vars(Next)

\* ------------------------------------------------------------------------
\* The marker scan on every text
\* ------------------------------------------------------------------------
\* One attempt of run_agent whose stream is a single chunk, drawn from every
\* shape of chunk and every text of up to MaxTextLen tokens: the state right
\* after run_thread returned that stream.
Texts == BSeq(Tokens, MaxTextLen)

ScanShapes == {"json", "obj", "invalid", "tool", "status", "error"}

ShapedChunk(shape, t) ==
    IF shape = "json" THEN Assistant(Content("str", "object", "str", t))
    ELSE IF shape = "obj" THEN Assistant(Content("obj", "na", "str", t))
    ELSE IF shape = "invalid" THEN Assistant(Content("str", "invalid", "absent", t))
    ELSE IF shape = "tool" THEN Chunk(TRUE, "tool", "none", "upstream", JsonText(t))
    ELSE IF shape = "error" THEN Chunk(TRUE, "status", "error", "upstream", JsonText(t))
    ELSE Chunk(TRUE, "status", "running", "upstream", JsonText(t))

OddChunks ==
    {Assistant(k) : k \in {NoContent,
          Content("null", "na", "absent", <<>>),
          Content("str", "array", "absent", <<>>),
          Content("str", "object", "absent", <<>>),
          Content("str", "object", "nonstr", <<>>),
          Content("obj", "na", "absent", <<>>),
          Content("obj", "na", "nonstr", <<>>)}}
    \cup {NonMapping, StatusError}

ScanInit ==
    /\ request \in {r \in Requests : ~NamesAnthropic(r.model_name)}
    /\ include_sample_response = TRUE
    /\ user_id = "none"
    /\ rapid_api_key = FALSE
    /\ pc = "read"
    /\ continue_execution = TRUE
    /\ last_tool_call = "none"
    /\ error_detected = FALSE
    /\ chunk = NoChunk
    /\ \/ \E shape \in ScanShapes, t \in Texts :
             /\ stream = Stream(<<ShapedChunk(shape, t)>>, FALSE)
             /\ sessions = <<Session("stream", Stream(<<ShapedChunk(shape, t)>>, FALSE))>>
       \/ \E c \in OddChunks :
             /\ stream = Stream(<<c>>, FALSE)
             /\ sessions = <<Session("stream", Stream(<<c>>, FALSE))>>
    /\ registry = ToolNames
    /\ delivered = <<>>
    /\ billing_calls = 0
    /\ stop = "none"
    /\ recording = TRUE
    /\ ToolsIdle

ScanNext ==
    \/ ReadChunk
    \/ ProcessChunk
    \/ EndOfAttempt
    \/ WhileTest

ScanSpec == ScanInit /\ [][ScanNext]_vars

\* ------------------------------------------------------------------------
\* One attempt on every short stream
\* ------------------------------------------------------------------------
\* One attempt of run_agent whose stream is any sequence of up to MaxLen
\* chunks whose texts are a single token, a whole closing tag or empty, so
\* that a tag can lie within one chunk or across two: the state right after
\* run_thread returned that stream.
AttemptTexts == {<<>>} \cup {<<t>> : t \in Tokens}
                   \cup {AskTag, CompleteTag, TakeoverTag}

AttemptChunks == {Assistant(JsonText(t)) : t \in AttemptTexts}
                    \cup {NonMapping, StatusError, AssistantBadJson}

AttemptInit ==
    /\ request \in {r \in Requests : NamesAnthropic(r.model_name)}
    /\ include_sample_response = FALSE
    /\ user_id = "none"
    /\ rapid_api_key = FALSE
    /\ pc = "read"
    /\ continue_execution = TRUE
    /\ last_tool_call = "none"
    /\ error_detected = FALSE
    /\ chunk = NoChunk
    /\ \E items \in BSeq(AttemptChunks, MaxLen), f \in BOOLEAN :
          /\ stream = Stream(items, f)
          /\ sessions = <<Session("stream", Stream(items, f))>>
    /\ registry = ToolNames
    /\ delivered = <<>>
    /\ billing_calls = 0
    /\ stop = "none"
    /\ recording = TRUE
    /\ ToolsIdle

AttemptSpec == AttemptInit /\ [][ScanNext]_vars

\* ------------------------------------------------------------------------
\* Tool calls
\* ------------------------------------------------------------------------
\* The tools are called while run_agent awaits a model session; the
\* variables of the loop stand still meanwhile.
loop == <<args, manager, locals, pc, delivered, sessions, billing_calls, stop>>

LoopIdle ==
    /\ request \in {r \in Requests : NamesAnthropic(r.model_name)}
    /\ include_sample_response = FALSE
    /\ user_id = "none"
    /\ rapid_api_key = FALSE
    /\ pc = "start"
    /\ continue_execution = TRUE
    /\ last_tool_call = "none"
    /\ error_detected = FALSE
    /\ chunk = NoChunk
    /\ stream = NoStream
    /\ registry = ToolNames
    /\ delivered = <<>>
    /\ sessions = <<>>
    /\ billing_calls = 0
    /\ stop = "none"
    /\ recording = TRUE

\* the `except Exception` of a tool method: the call returns fail_response
Fail(c) == calls' = [calls EXCEPT ![c].pc = "returned", ![c].result = "error"]

\* thread_manager.add_message: one record is appended to the thread and its
\* identifier is handed back (`by` notes the call that added it)
AddMessage(c, type, content) ==
    thread' = Append(thread, [by |-> c, type |-> type, content |-> content,
                              message_id |-> Len(thread) + 1])

\* ------------------------------------------------------------------------
\* AskHumanTool.ask_human, called up to MaxCalls times at once
\* ------------------------------------------------------------------------
AskCall(q) ==
    [tool |-> "ask_human", question |-> q, pc |-> "ensure",
     request_message_id |-> 0, result |-> "none"]

AskInit ==
    /\ LoopIdle
    /\ \E n \in 1..MaxCalls : calls = [c \in 1..n |-> AskCall(c)]
    /\ thread = <<>>
    /\ plan_file = NoPlan
    /\ browser = NoPage
    /\ db = NoRows

\* `await self._ensure_sandbox()`
AskEnsure ==
    /\ \E c \in DOMAIN calls :
          /\ calls[c].pc = "ensure"
          /\ \/ calls' = [calls EXCEPT ![c].pc = "request"]
             \/ Fail(c)
    /\ UNCHANGED <<loop, thread, plan_file, browser, db>>

\* the request record is added and its identifier kept in the local
\* request_message_id
AskRequest ==
    /\ \E c \in DOMAIN calls :
          /\ calls[c].pc = "request"
          /\ \/ /\ AddMessage(c, "human_assistance_request",
                              [question |-> calls[c].question, request_id |-> 0])
                /\ calls' = [calls EXCEPT ![c].pc = "response",
                                          ![c].request_message_id = Len(thread) + 1]
             \/ /\ Fail(c)
                /\ UNCHANGED thread
    /\ UNCHANGED <<loop, plan_file, browser, db>>

\* the identifier of the last request record of the thread
LastRequestId(t) ==
    LET S == {i \in 1..Len(t) : t[i].type = "human_assistance_request"}
    IN  IF S = {} THEN 0 ELSE t[CHOOSE i \in S : \A j \in S : j <= i].message_id

\* (mutant) the request identifier is looked up in the thread when the
\* response is written, not kept by the call
AskResponse_SharedId ==
    /\ \E c \in DOMAIN calls :
          /\ calls[c].pc = "response"
          /\ \/ /\ AddMessage(c, "human_assistance_response",
                              [question |-> 0, request_id |-> LastRequestId(thread)])
                /\ calls' = [calls EXCEPT ![c].pc = "returned", ![c].result = "output"]
             \/ /\ Fail(c)
                /\ UNCHANGED thread
    /\ UNCHANGED <<loop, plan_file, browser, db>>

\* the placeholder response record is added with request_id the local
\* request_message_id, and the call returns success
AskResponse ==
    /\ \E c \in DOMAIN calls :
          /\ calls[c].pc = "response"
          /\ \/ /\ AddMessage(c, "human_assistance_response",
                              [question |-> 0, request_id |-> calls[c].request_message_id])
                /\ calls' = [calls EXCEPT ![c].pc = "returned", ![c].result = "output"]
             \/ /\ Fail(c)
                /\ UNCHANGED thread
    /\ UNCHANGED <<loop, plan_file, browser, db>>

AskNext == AskEnsure \/ AskRequest \/ AskResponse

AskSpec == AskInit /\ [][AskNext]_vars

\* ------------------------------------------------------------------------
\* PlanningTool.update_plan_step, called twice at once on one plan
\* ------------------------------------------------------------------------
\* the plan as create_plan stored it: steps numbered from 1, all pending
StoredPlan(n) ==
    [exists |-> TRUE,
     steps |-> [i \in 1..n |-> [description |-> i, status |-> "pending",
                                updated_at |-> "none", notes |-> "none"]]]

\* the two calls of one assistant turn
PlanCallers == {"a", "b"}

\* step_index may lie outside the plan; notes may be left out ("")
PlanCall(i, notes) ==
    [tool |-> "update_plan_step", step_index |-> i, status |-> "completed",
     notes |-> notes, pc |-> "ensure", plan |-> <<>>, loaded |-> FALSE,
     result |-> "none"]

PlanInit ==
    /\ LoopIdle
    /\ calls \in [PlanCallers -> {PlanCall(i, n) : i \in 0..(MaxSteps + 1),
                                                  n \in {"", "n"}}]
    /\ thread = <<>>
    /\ plan_file \in {NoPlan, StoredPlan(MaxSteps)}
    /\ browser = NoPage
    /\ db = NoRows

\* `await self._ensure_sandbox()`: the one place where the call can be
\* suspended
PlanEnsure ==
    /\ \E c \in DOMAIN calls :
          /\ calls[c].pc = "ensure"
          /\ \/ calls' = [calls EXCEPT ![c].pc = "update"]
             \/ Fail(c)
    /\ UNCHANGED <<loop, thread, plan_file, browser, db>>

\* the step as the call leaves it: status and updated_at set, notes only
\* when given (the time of the update is noted as the call that made it)
StepUpdate(step, c) ==
    [step EXCEPT !.status = calls[c].status,
                 !.updated_at = c,
                 !.notes = IF calls[c].notes # "" THEN calls[c].notes ELSE @]

\* (mutant) the download is awaited: the call can be suspended between
\* reading the plan and writing it back
PlanUpdate_Await ==
    /\ \E c \in DOMAIN calls :
          /\ calls[c].pc = "update"
          /\ LET i == calls[c].step_index
             IN  IF ~calls[c].loaded
                 THEN \/ /\ ~plan_file.exists \/ i < 1 \/ i > Len(plan_file.steps)
                         /\ Fail(c)
                         /\ UNCHANGED plan_file
                      \/ /\ plan_file.exists
                         /\ i \in 1..Len(plan_file.steps)
                         /\ calls' = [calls EXCEPT ![c].plan = plan_file.steps,
                                                   ![c].loaded = TRUE]
                         /\ UNCHANGED plan_file
                 ELSE /\ plan_file' = [plan_file EXCEPT !.steps =
                              [calls[c].plan EXCEPT ![i] = StepUpdate(@, c)]]
                      /\ calls' = [calls EXCEPT ![c].pc = "returned",
                                                ![c].result = "output"]
    /\ UNCHANGED <<loop, thread, browser, db>>

\* (mutant) step_index is taken as an index from 0
PlanUpdate_ZeroBased ==
    /\ \E c \in DOMAIN calls :
          /\ calls[c].pc = "update"
          /\ LET i == calls[c].step_index + 1
             IN  \/ /\ ~plan_file.exists \/ i < 1 \/ i > Len(plan_file.steps)
                    /\ Fail(c)
                    /\ UNCHANGED plan_file
                 \/ /\ plan_file.exists
                    /\ i \in 1..Len(plan_file.steps)
                    /\ plan_file' = [plan_file EXCEPT !.steps[i] = StepUpdate(@, c)]
                    /\ calls' = [calls EXCEPT ![c].pc = "returned",
                                              ![c].result = "output"]
    /\ UNCHANGED <<loop, thread, browser, db>>

\* from download_file to upload_file without an await: the plan is read,
\* the index validated, the step changed and the plan written back in one
\* piece; a plan that is not there or an index outside it returns an
\* error, and so does an upload that raises, the file left as it was
PlanUpdate ==
    /\ \E c \in DOMAIN calls :
          /\ calls[c].pc = "update"
          /\ LET i == calls[c].step_index
             IN  \/ /\ ~plan_file.exists \/ i < 1 \/ i > Len(plan_file.steps)
                    /\ Fail(c)
                    /\ UNCHANGED plan_file
                 \/ /\ plan_file.exists
                    /\ i \in 1..Len(plan_file.steps)
                    /\ \/ /\ plan_file' =
                                [plan_file EXCEPT !.steps[i] = StepUpdate(@, c)]
                          /\ calls' = [calls EXCEPT
                                ![c].plan = [plan_file.steps EXCEPT
                                                ![i] = StepUpdate(@, c)],
                                ![c].loaded = TRUE,
                                ![c].pc = "returned",
                                ![c].result = "output"]
                       \/ /\ Fail(c)
                          /\ UNCHANGED plan_file
    /\ UNCHANGED <<loop, thread, browser, db>>

PlanNext == PlanEnsure \/ PlanUpdate

PlanSpec == PlanInit /\ [][PlanNext]_vars

\* ------------------------------------------------------------------------
\* AnthropicBrowserTool._execute_browser_action, one action after another
\* ------------------------------------------------------------------------
\* A page stands for its url, its content and its title alike.
Pages == {"A", "B"}

\* anthropic_navigate_to(url), or an action without a url ("none")
BrowserCall(action, url) ==
    [tool |-> "anthropic_browser", action |-> action, url |-> url,
     pc |-> "prepare", result |-> "none"]

\* no call is running
Idle == IF calls = <<>> THEN TRUE ELSE calls[Len(calls)].pc = "returned"

BrowserInit ==
    /\ LoopIdle
    /\ ToolsIdle

\* the next action is called, once the one before has returned
BrowserStart ==
    /\ Idle
    /\ Len(calls) < MaxCalls
    /\ \/ \E u \in Pages : calls' = Append(calls, BrowserCall("navigate_to", u))
       \/ calls' = Append(calls, BrowserCall("click_element", "none"))
    /\ UNCHANGED <<loop, thread, plan_file, browser, db>>

\* the client and the sandbox are made sure of and the model is asked; a
\* missing API key returns an error result, an exception is caught
BrowserPrepare ==
    /\ \E c \in DOMAIN calls :
          /\ calls[c].pc = "prepare"
          /\ \/ calls' = [calls EXCEPT ![c].pc =
                    IF calls[c].action = "navigate_to" THEN "navigate" ELSE "record"]
             \/ Fail(c)
    /\ UNCHANGED <<loop, thread, plan_file, browser, db>>

\* current_url is assigned first; then the page is fetched through the
\* sandbox, and only when that gives no error are content and title assigned
BrowserNavigate ==
    /\ \E c \in DOMAIN calls :
          /\ calls[c].pc = "navigate"
          /\ \/ /\ browser' = [current_url |-> calls[c].url,
                               current_page_content |-> calls[c].url,
                               current_page_title |-> calls[c].url]
                /\ calls' = [calls EXCEPT ![c].pc = "record"]
             \/ /\ browser' = [browser EXCEPT !.current_url = calls[c].url]
                /\ Fail(c)
    /\ UNCHANGED <<loop, thread, plan_file, db>>

\* the anthropic_browser_state record is added and the call returns
BrowserRecord ==
    /\ \E c \in DOMAIN calls :
          /\ calls[c].pc = "record"
          /\ \/ /\ AddMessage(c, "anthropic_browser_state",
                              [question |-> 0, request_id |-> 0])
                /\ calls' = [calls EXCEPT ![c].pc = "returned", ![c].result = "output"]
             \/ /\ Fail(c)
                /\ UNCHANGED thread
    /\ UNCHANGED <<loop, plan_file, browser, db>>

BrowserNext == BrowserStart \/ BrowserPrepare \/ BrowserNavigate \/ BrowserRecord

BrowserSpec == BrowserInit /\ [][BrowserNext]_vars

\* ------------------------------------------------------------------------
\* CreateChatCompletionTool.create_chat_completion, one call after another
\* ------------------------------------------------------------------------
\* the roles of the messages given: an empty list and a role that is not
\* system, user or assistant are rejected by the validation
MessageLists == {<<>>, <<"tool">>, <<"user">>, <<"system", "user">>}

ValidMessages(ms) ==
    /\ ms # <<>>
    /\ \A k \in 1..Len(ms) : ms[k] \in {"system", "user", "assistant"}

ChatCall(ms, save) ==
    [tool |-> "create_chat_completion", messages |-> ms, save_to_file |-> save,
     pc |-> "ensure", inserted |-> 0, result |-> "none"]

ChatInit ==
    /\ LoopIdle
    /\ ToolsIdle

ChatStart ==
    /\ Idle
    /\ Len(calls) < MaxCalls
    /\ \E ms \in MessageLists, save \in BOOLEAN :
          calls' = Append(calls, ChatCall(ms, save))
    /\ UNCHANGED <<loop, thread, plan_file, browser, db>>

\* `await self._ensure_sandbox()` and the validation of the messages
ChatEnsure ==
    /\ \E c \in DOMAIN calls :
          /\ calls[c].pc = "ensure"
          /\ \/ /\ ValidMessages(calls[c].messages)
                /\ calls' = [calls EXCEPT ![c].pc = "insert_thread"]
             \/ Fail(c)
    /\ UNCHANGED <<loop, thread, plan_file, browser, db>>

\* the database client is awaited and the temporary thread inserted,
\* under a fresh thread_id (the call's own)
ChatInsertThread ==
    /\ \E c \in DOMAIN calls :
          /\ calls[c].pc = "insert_thread"
          /\ \/ /\ db' = [db EXCEPT !.threads = @ \cup {c}]
                /\ calls' = [calls EXCEPT ![c].pc = "insert_message"]
             \/ /\ Fail(c)
                /\ UNCHANGED db
    /\ UNCHANGED <<loop, thread, plan_file, browser>>

\* one more message is inserted into the temporary thread
ChatInsertMessage ==
    /\ \E c \in DOMAIN calls :
          /\ calls[c].pc = "insert_message"
          /\ \/ /\ db' = [db EXCEPT !.messages =
                            @ \cup {<<c, calls[c].inserted + 1>>}]
                /\ calls' = [calls EXCEPT
                      ![c].inserted = @ + 1,
                      ![c].pc = IF calls[c].inserted + 1 = Len(calls[c].messages)
                                THEN "complete" ELSE "insert_message"]
             \/ /\ Fail(c)
                /\ UNCHANGED db
    /\ UNCHANGED <<loop, thread, plan_file, browser>>

\* the completion is awaited and its text taken out of the response; then
\* the text is saved to a file when asked for
ChatComplete ==
    /\ \E c \in DOMAIN calls :
          /\ calls[c].pc = "complete"
          /\ \/ calls' = [calls EXCEPT ![c].pc =
                    IF calls[c].save_to_file THEN "save" ELSE "delete_messages"]
             \/ Fail(c)
    /\ UNCHANGED <<loop, thread, plan_file, browser, db>>

ChatSave ==
    /\ \E c \in DOMAIN calls :
          /\ calls[c].pc = "save"
          /\ \/ calls' = [calls EXCEPT ![c].pc = "delete_messages"]
             \/ Fail(c)
    /\ UNCHANGED <<loop, thread, plan_file, browser, db>>

\* the clean-up at the end of the try block: the messages of the temporary
\* thread are deleted, then the thread
ChatDeleteMessages ==
    /\ \E c \in DOMAIN calls :
          /\ calls[c].pc = "delete_messages"
          /\ \/ /\ db' = [db EXCEPT !.messages = {m \in @ : m[1] # c}]
                /\ calls' = [calls EXCEPT ![c].pc = "delete_thread"]
             \/ /\ Fail(c)
                /\ UNCHANGED db
    /\ UNCHANGED <<loop, thread, plan_file, browser>>

ChatDeleteThread ==
    /\ \E c \in DOMAIN calls :
          /\ calls[c].pc = "delete_thread"
          /\ \/ /\ db' = [db EXCEPT !.threads = @ \ {c}]
                /\ calls' = [calls EXCEPT ![c].pc = "returned", ![c].result = "output"]
             \/ /\ Fail(c)
                /\ UNCHANGED db
    /\ UNCHANGED <<loop, thread, plan_file, browser>>

ChatNext ==
    \/ ChatStart
    \/ ChatEnsure
    \/ ChatInsertThread
    \/ ChatInsertMessage
    \/ ChatComplete
    \/ ChatSave
    \/ ChatDeleteMessages
    \/ ChatDeleteThread

ChatSpec == ChatInit /\ [][ChatNext]_vars

\* ------------------------------------------------------------------------
\* Reading the histories
\* ------------------------------------------------------------------------
IsMapping(c) == c.mapping

\* the chunks pulled from the streams of sessions 1..n, in order
RECURSIVE PulledUpTo(_, _)
PulledUpTo(ss, n) ==
    IF n = 0 THEN <<>>
    ELSE PulledUpTo(ss, n - 1) \o SubSeq(ss[n].stream.items, 1, ss[n].pulled)

\* the whole streams of sessions 1..n, in order
RECURSIVE ProducedUpTo(_, _)
ProducedUpTo(ss, n) ==
    IF n = 0 THEN <<>>
    ELSE ProducedUpTo(ss, n - 1) \o ss[n].stream.items

\* the chunks the loop has pulled and is done with (the one in hand at
\* "process" is not yet yielded)
Handled ==
    LET all == PulledUpTo(sessions, Len(sessions))
    IN  IF pc = "process" THEN SubSeq(all, 1, Len(all) - 1) ELSE all

\* the reasons to stop for which run_agent yields a fragment of its own
OwnFragmentStops == {"authorization", "start_exception", "start_failure",
                     "stream_exception"}
OwnFragments == {CreditsError, ThreadError, StreamingError} \cup ErrorResponses

Last(seq) == seq[Len(seq)]

\* session i has, among the chunks handled, one that satisfies P
HandledIn(i, P(_)) ==
    \E k \in 1..sessions[i].pulled :
        /\ P(sessions[i].stream.items[k])
        /\ (i = Len(sessions) /\ pc = "process") => k < sessions[i].pulled

\* the last Len(seq) items of delivered are seq
EndsWith(seq) ==
    /\ Len(seq) <= Len(delivered)
    /\ SubSeq(delivered, Len(delivered) - Len(seq) + 1, Len(delivered)) = seq

\* ------------------------------------------------------------------------
\* C1
\* ------------------------------------------------------------------------
\* C1 as stated: when the run is over, what the caller received is exactly
\* the concatenation of what the attempts' streams produced, nothing added.
C1_DeliveredIsStreams ==
    pc \in Terminal => delivered = ProducedUpTo(sessions, Len(sessions))

\* C1 (amended): at every moment the delivered sequence is the concatenation,
\* in order, of the mapping chunks pulled from each attempt's stream (none
\* reordered, dropped or duplicated), followed by at most one fragment made
\* by the loop itself, which is there exactly when the run stopped for an
\* authorization failure, a start failure or an exception.
C1_Ordering ==
    LET fwd == SelectSeq(Handled, IsMapping)
    IN  IF stop \in OwnFragmentStops
        THEN /\ delivered # <<>>
             /\ SubSeq(delivered, 1, Len(delivered) - 1) = fwd
             /\ Last(delivered) \in OwnFragments
        ELSE delivered = fwd

\* a second attempt has run after a first one that forwarded chunks, and an
\* own fragment closed the run
C1_Witness ==
    /\ pc = "done"
    /\ Len(sessions) = 2
    /\ sessions[1].pulled = 2
    /\ sessions[2].pulled = 2
    /\ stop = "stream_exception"
    /\ Len(delivered) = 5

\* ------------------------------------------------------------------------
\* C2
\* ------------------------------------------------------------------------
\* C2: an error chunk handled in attempt i does not cut the stream short and
\* ends the run: attempt i is the last one, the loop leaves the stream only
\* at its end or on an exception, and when the stream ended normally the
\* whole stream of attempt i, the chunks after the error included, is the
\* tail of what was delivered and the run stops for the error.
C2_ErrorDrainsThenStops ==
    \A i \in 1..Len(sessions) :
        HandledIn(i, IsErrorChunk) =>
            /\ i = Len(sessions)
            /\ pc \in {"read", "process", "decide", "done"}
            /\ pc \in {"decide", "done"} => sessions[i].ended # "open"
            /\ sessions[i].ended = "exhausted" =>
                  /\ EndsWith(sessions[i].stream.items)
                  /\ pc = "done" => stop = "error"

\* an attempt whose stream had a chunk before and a chunk after the error
\* chunk has ended, all three delivered
C2_Witness ==
    /\ pc = "done"
    /\ stop = "error"
    /\ Len(sessions) = 2
    /\ sessions[2].stream.items = <<AssistantPlain, StatusError, AssistantPlain>>
    /\ EndsWith(<<AssistantPlain, StatusError, AssistantPlain>>)

\* ------------------------------------------------------------------------
\* C3
\* ------------------------------------------------------------------------
Tags == {AskTag, CompleteTag, TakeoverTag}

\* an assistant chunk whose content decodes to a dict with a nested string
DecodableText(c) ==
    /\ c.mapping
    /\ c.type = "assistant"
    /\ \/ c.content.form = "obj"
       \/ c.content.form = "str" /\ c.content.json = "object"
    /\ c.content.inner = "str"

\* ... and that string holds a closing tag
HasMarkerText(c) ==
    /\ DecodableText(c)
    /\ \E tag \in Tags : Contains(c.content.text, tag)

\* C3: an assistant chunk with a marker in its decoded text, handled at any
\* position of attempt i, ends the run after attempt i: no later attempt is
\* started, the loop leaves the stream only at its end or on an exception,
\* and when the stream ended normally the whole stream of attempt i is the
\* tail of what was delivered and the loop flag is down or the run is over.
\* A run whose first attempt streams [assistant without marker, assistant
\* with </complete>] delivers exactly those two, in one attempt, and stops
\* for the marker.
C3_MarkerStops ==
    /\ \A i \in 1..Len(sessions) :
          HandledIn(i, HasMarkerText) =>
              /\ i = Len(sessions)
              /\ pc # "start"
              /\ pc \in {"decide", "loop", "done"} => sessions[i].ended # "open"
              /\ sessions[i].ended = "exhausted" =>
                    /\ EndsWith(sessions[i].stream.items)
                    /\ pc = "loop" => ~continue_execution /\ stop = "marker"
                    /\ pc = "done" => stop \in {"marker", "error"}
    /\ ( /\ pc = "done"
         /\ sessions # <<>>
         /\ sessions[1].stream = Stream(<<AssistantPlain, AssistantComplete>>, FALSE) )
       => /\ delivered = <<AssistantPlain, AssistantComplete>>
          /\ Len(sessions) = 1
          /\ stop = "marker"

\* the scenario's run is over
C3_Witness ==
    /\ pc = "done"
    /\ stop = "marker"
    /\ Len(sessions) = 1
    /\ sessions[1].stream = Stream(<<AssistantPlain, AssistantComplete>>, FALSE)
    /\ delivered = <<AssistantPlain, AssistantComplete>>

C5_GateOnce ==
    /\ billing_calls <= 1
    /\ pc = "gate" => billing_calls = 0 /\ sessions = <<>>
    /\ (sessions # <<>> /\ user_id # "none") => billing_calls = 1
    /\ stop = "authorization" =>
          /\ pc = "done"
          /\ billing_calls = 1
          /\ delivered = <<CreditsError>>
          /\ sessions = <<>>

\* the check has failed
C5_Witness == stop = "authorization" /\ delivered = <<CreditsError>>

\* ------------------------------------------------------------------------
\* C6
\* ------------------------------------------------------------------------
\* C6: once the loop has decided to stop (for a marker, an error, a start
\* failure or any other reason), no step yields a fragment or starts a
\* session, and the reason stays.
C6_TerminalAbsorbing ==
    [][stop # "none" =>
          /\ delivered' = delivered
          /\ sessions' = sessions
          /\ stop' = stop]_vars

\* the marker stop is decided and the while test is still to come
C6_Witness == stop = "marker" /\ pc = "loop" /\ delivered # <<>>

\* ------------------------------------------------------------------------
\* C7
\* ------------------------------------------------------------------------
\* C7 as stated: no exception ever leaves run_agent.
C7_NoExceptionEscapes == pc # "raised"

\* ------------------------------------------------------------------------
\* C8
\* ------------------------------------------------------------------------
\* C8 as stated: every run reaches a terminal state.
C8_EveryRunTerminates == <>(pc \in Terminal)

\* C8 (amended): every attempt terminates (a started attempt's stream is
\* consumed to its end or to an exception), and the run reaches a terminal
\* state once an attempt ends having seen an error fragment or a marker.
C8_AttemptsTerminate ==
    /\ (pc \in {"read", "process"}) ~> (pc \in {"decide", "done"})
    /\ (pc = "decide" /\ (error_detected \/ last_tool_call \in StopTools))
          ~> (pc \in Terminal)

\* an attempt has ended with neither an error nor a marker
C8_Witness ==
    /\ pc = "decide"
    /\ ~error_detected
    /\ last_tool_call = "none"
    /\ ~recording

\* ------------------------------------------------------------------------
\* C9
\* ------------------------------------------------------------------------
\* the tags a text holds
TagsIn(text) == {tag \in Tags : Contains(text, tag)}

\* C9: after the scan of an assistant chunk whose decoded text holds more
\* than one closing tag, last_tool_call is ask when </ask> is among them,
\* else complete when </complete> is, else web-browser-takeover, wherever in
\* the text the tags stand.
C9_Priority ==
    (delivered # <<>> /\ DecodableText(delivered[1])
        /\ Cardinality(TagsIn(delivered[1].content.text)) > 1)
    => LET found == TagsIn(delivered[1].content.text)
       IN  last_tool_call = IF AskTag \in found THEN "ask"
                            ELSE IF CompleteTag \in found THEN "complete"
                            ELSE "web-browser-takeover"

\* a text with </web-browser-takeover>, then </complete>, then </ask> was
\* scanned and ask was recorded
C9_Witness ==
    /\ delivered = <<Assistant(JsonText(TakeoverTag \o CompleteTag \o AskTag))>>
    /\ last_tool_call = "ask"

FromStream(f) == f.message = "upstream"

\* mapping chunks pulled from the streams and not yet delivered
Unforwarded(ss, out) ==
    Len(SelectSeq(PulledUpTo(ss, Len(ss)), IsMapping))
        - Len(SelectSeq(out, FromStream))

\* C11: the loop never holds more than one chunk it has read and not yet
\* yielded, and holds one only while it processes it; it reads the next
\* chunk only when every mapping chunk read before has been yielded, a read
\* yields nothing, and the step that processes a mapping chunk yields that
\* chunk, once, and goes back to reading.
C11_StrictInterleaving ==
    [][ /\ Unforwarded(sessions, delivered) \in {0, 1}
        /\ Unforwarded(sessions', delivered') \in {0, 1}
        /\ Unforwarded(sessions, delivered) = 1 => pc = "process"
        /\ (pc = "read" /\ pc' = "process") =>
              /\ Unforwarded(sessions, delivered) = 0
              /\ delivered' = delivered
              /\ chunk' = Last(PulledUpTo(sessions', Len(sessions')))
        /\ (pc = "process" /\ chunk.mapping) =>
              /\ delivered' = Append(delivered, chunk)
              /\ pc' = "read" ]_vars

\* a chunk is in hand, read after two others were yielded
C11_Witness ==
    /\ pc = "process"
    /\ chunk = StatusOther
    /\ delivered = <<AssistantPlain, AssistantBadJson>>
    /\ Unforwarded(sessions, delivered) = 1

\* ------------------------------------------------------------------------
\* C12
\* ------------------------------------------------------------------------
\* attempt i ran its stream to the end and saw neither an error chunk nor a
\* marker
Clean(i) ==
    /\ sessions[i].start = "stream"
    /\ sessions[i].ended = "exhausted"
    /\ sessions[i].pulled = Len(sessions[i].stream.items)
    /\ \A k \in 1..Len(sessions[i].stream.items) :
          /\ ~IsErrorChunk(sessions[i].stream.items[k])
          /\ ~HasMarkerText(sessions[i].stream.items[k])

\* C12: every attempt but the last was clean (another attempt is started
\* only after a clean one), and after a clean attempt the loop is on its way
\* to the next one: the flag is up and no stop was decided.  The loop goes
\* on to a further attempt only from a clean one, and a run that has started
\* a session ends only for a marker, an error chunk, a start failure or an
\* exception.
C12_AutoContinue ==
    /\ \A i \in 1..(Len(sessions) - 1) : Clean(i)
    /\ (sessions # <<>> /\ Clean(Len(sessions))) =>
          /\ pc \in {"decide", "loop", "start"}
          /\ continue_execution
          /\ stop = "none"
    /\ (sessions # <<>> /\ (pc = "start" \/ (pc = "loop" /\ continue_execution)))
          => Clean(Len(sessions))
    /\ (sessions # <<>> /\ pc \in Terminal) =>
          stop \in {"marker", "error", "start_failure", "start_exception",
                    "stream_exception"}

\* a second attempt runs after a first one that streamed two chunks
C12_Witness ==
    /\ Len(sessions) = 2
    /\ Clean(1)
    /\ sessions[1].pulled = 2
    /\ pc = "read"

Undecodable(c) ==
    /\ c.mapping
    /\ c.type = "assistant"
    /\ c.content.form = "str"
    /\ c.content.json = "invalid"

\* C14: the step that processes an undecodable assistant chunk yields that
\* chunk as it is, leaves last_tool_call, error_detected, the loop flag and
\* the stop reason alone, and goes back to reading.
C14_DecodeFailureNotEscalated ==
    [][ (pc = "process" /\ Undecodable(chunk)) =>
            /\ delivered' = Append(delivered, chunk)
            /\ last_tool_call' = last_tool_call
            /\ error_detected' = error_detected
            /\ continue_execution' = continue_execution
            /\ stop' = stop
            /\ pc' = "read" ]_vars

\* after a first attempt of undecodable chunks alone a second one is running
C14_Witness ==
    /\ Len(sessions) = 2
    /\ sessions[1].stream.items = <<AssistantBadJson, AssistantBadJson>>
    /\ delivered = <<AssistantBadJson, AssistantBadJson>>
    /\ pc = "read"
    /\ stop = "none"

\* ------------------------------------------------------------------------
\* C15
\* ------------------------------------------------------------------------
\* C15: an attempt in which both an error chunk and a marker were handled,
\* in either order, never stops for the marker: the flag stays up, and when
\* its stream has ended normally the run is over for the error.
C15_ErrorPrecedence ==
    \A i \in 1..Len(sessions) :
        (HandledIn(i, IsErrorChunk) /\ HandledIn(i, HasMarkerText)) =>
            /\ stop # "marker"
            /\ continue_execution
            /\ pc # "loop"
            /\ (sessions[i].ended = "exhausted" /\ pc = "done") => stop = "error"

\* the marker came first and the error after it
C15_Witness ==
    /\ pc = "done"
    /\ stop = "error"
    /\ sessions # <<>>
    /\ Last(sessions).stream.items = <<AssistantComplete, StatusError>>
    /\ EndsWith(<<AssistantComplete, StatusError>>)

\* ------------------------------------------------------------------------
\* C16
\* ------------------------------------------------------------------------
\* C16 (as stated): when the run has stopped for an error chunk the loop
\* flag is down.
C16_FlagDownWhenStopped ==
    (pc = "done" /\ stop = "error") => ~continue_execution

\* C16 (amended): the flag is down exactly when a marker stopped the loop;
\* a run stopped for an error chunk has left the loop by `break` with the
\* flag still up, and so has every run stopped by a start failure or an
\* exception.
C16_FlagDownOnlyOnMarker ==
    /\ ~continue_execution <=> stop = "marker"
    /\ (pc = "done" /\ stop \in {"error", "start_failure", "start_exception",
                                 "stream_exception"}) => continue_execution

\* the run has stopped for an error chunk of its second attempt
C16_Witness ==
    /\ pc = "done"
    /\ stop = "error"
    /\ continue_execution
    /\ Len(sessions) = 2
    /\ HandledIn(2, IsErrorChunk)

\* ------------------------------------------------------------------------
\* C17
\* ------------------------------------------------------------------------
\* session i has a stream the loop has not left yet
Open(i) == sessions[i].start = "stream" /\ sessions[i].ended = "open"

\* C17: only the last session can be open; every session before it had a
\* stream that was pulled to its end; and the stream fragments delivered are
\* those of the sessions one session after the other, never mixed.
C17_OneSessionOpen ==
    /\ \A i \in 1..Len(sessions) : Open(i) => i = Len(sessions)
    /\ \A i \in 1..(Len(sessions) - 1) :
          /\ sessions[i].start = "stream"
          /\ sessions[i].ended = "exhausted"
          /\ sessions[i].pulled = Len(sessions[i].stream.items)
    /\ \A i \in 1..Len(sessions) :
          (i < Len(sessions) \/ pc # "process") =>
              SubSeq(SelectSeq(delivered, FromStream), 1,
                     Len(SelectSeq(PulledUpTo(sessions, i), IsMapping)))
                  = SelectSeq(PulledUpTo(sessions, i), IsMapping)

\* the second session is open after the first gave its two chunks
C17_Witness ==
    /\ Len(sessions) = 2
    /\ sessions[1].pulled = 2
    /\ sessions[1].ended = "exhausted"
    /\ Open(2)
    /\ sessions[2].pulled = 1
    /\ pc = "process"
    /\ Len(delivered) = 2

\* ------------------------------------------------------------------------
\* C18
\* ------------------------------------------------------------------------
\* a delivered fragment that run_agent put out itself
OwnFragment(f) == ~FromStream(f)

C19_SameCallEveryAttempt ==
    \A i \in 1..Len(sessions) :
        /\ sessions[i].call.request = request
        /\ sessions[i].call.request \in Requests
        /\ sessions[i].call.tool_config.execute_tools = TRUE
        /\ sessions[i].call.tool_config.execute_on_stream = TRUE
        /\ sessions[i].call.tool_config.tool_execution_strategy = "parallel"
        /\ sessions[i].call.tool_config.xml_adding_strategy = "user_message"
        /\ \A j \in 1..Len(sessions) : sessions[j].call = sessions[i].call

\* two sessions were started
C19_Witness ==
    /\ Len(sessions) = 2
    /\ sessions[1].call = sessions[2].call
    /\ sessions[1].pulled >= 1
    /\ sessions[2].start = "stream"

\* ------------------------------------------------------------------------
\* C20
\* ------------------------------------------------------------------------
\* C20: the registry holds the tools in the order of the code, none twice;
\* it is empty until the gate has passed and for good when the gate
\* rejects; and it is complete from the first run_thread call on.
C20_RegistrationsOnce ==
    /\ Len(registry) <= Len(ToolNames)
    /\ registry = SubSeq(ToolNames, 1, Len(registry))
    /\ \A i, j \in 1..Len(registry) : registry[i] = registry[j] => i = j
    /\ pc \in {"gate", "billing"} => registry = <<>>
    /\ stop = "authorization" => registry = <<>>
    /\ (sessions # <<>> \/ pc \in {"loop", "start", "read", "process", "decide"})
          => registry = ToolNames

\* the run has ended after two sessions with the registry as setup left it
C20_Witness ==
    /\ pc = "done"
    /\ Len(sessions) = 2
    /\ registry = ToolNames
    /\ Len(registry) = 11

\* ------------------------------------------------------------------------
\* C21
\* ------------------------------------------------------------------------
\* C21: in an attempt whose stream is one mapping chunk that is not of type
\* assistant, whatever text it carries, last_tool_call stays none, no marker
\* stop is taken and the flag stays up; the chunk is delivered as it is; and
\* unless the chunk is an error chunk the run does not stop.
C21_OnlyAssistantScanned ==
    LET c == sessions[1].stream.items[1]
    IN  (c.mapping /\ c.type # "assistant") =>
            /\ last_tool_call = "none"
            /\ stop # "marker"
            /\ continue_execution
            /\ delivered \in {<<>>, <<c>>}
            /\ (sessions[1].pulled = 1 /\ pc # "process") => delivered = <<c>>
            /\ ~IsErrorChunk(c) => (stop = "none" /\ pc # "done")

\* a status chunk with </ask> in its payload was forwarded and the loop is
\* about to start the next attempt
C21_Witness ==
    LET c == sessions[1].stream.items[1]
    IN  /\ c.type = "status"
        /\ c.status = "running"
        /\ Contains(c.content.text, AskTag)
        /\ delivered = <<c>>
        /\ pc = "start"
        /\ last_tool_call = "none"

\* ------------------------------------------------------------------------
\* C22
\* ------------------------------------------------------------------------
\* the marker of one chunk: none unless it is a decodable assistant chunk
\* with a closing tag in its text
MarkerOf(c) ==
    IF ~HasMarkerText(c) THEN "none"
    ELSE IF Contains(c.content.text, AskTag) THEN "ask"
    ELSE IF Contains(c.content.text, CompleteTag) THEN "complete"
    ELSE "web-browser-takeover"

\* the marker of the last chunk of items that has one
RECURSIVE LastMarker(_)
LastMarker(items) ==
    IF items = <<>> THEN "none"
    ELSE IF MarkerOf(Last(items)) # "none" THEN MarkerOf(Last(items))
    ELSE LastMarker(SubSeq(items, 1, Len(items) - 1))

\* the chunks of the attempt the loop body has dealt with
HandledOfAttempt ==
    SubSeq(sessions[1].stream.items, 1,
           sessions[1].pulled - (IF pc = "process" THEN 1 ELSE 0))

\* C22: at every point of an attempt last_tool_call is the marker of the
\* last chunk handled so far that had one, and none when none had; a stream
\* that ended without an error chunk stops the run for the marker exactly
\* when that value is not none.
C22_LastMarkerWins ==
    /\ last_tool_call = LastMarker(HandledOfAttempt)
    /\ last_tool_call = "none" <=>
          \A k \in 1..Len(HandledOfAttempt) : ~HasMarkerText(HandledOfAttempt[k])
    /\ (sessions[1].ended = "exhausted" /\ ~error_detected /\ pc # "decide") =>
          (stop = "marker" <=> LastMarker(sessions[1].stream.items) # "none")

\* complete, then ask, then a chunk without a marker: ask stays
C22_Witness ==
    /\ sessions[1].stream.items = <<Assistant(JsonText(CompleteTag)),
                                    Assistant(JsonText(AskTag)),
                                    Assistant(JsonText(<<"</">>))>>
    /\ pc = "done"
    /\ last_tool_call = "ask"
    /\ stop = "marker"

\* ------------------------------------------------------------------------
\* C23
\* ------------------------------------------------------------------------
\* C23: when no single chunk handled has a marker in its own text, even if
\* the texts of the chunks put together hold a closing tag, last_tool_call
\* is none and no marker stop is taken; when the stream has ended with no
\* error chunk either, the loop goes on to the next run_thread call.
C23_SplitTagNotDetected ==
    (\A k \in 1..Len(HandledOfAttempt) : ~HasMarkerText(HandledOfAttempt[k])) =>
        /\ last_tool_call = "none"
        /\ stop # "marker"
        /\ continue_execution
        /\ (sessions[1].ended = "exhausted" /\ ~error_detected) =>
              (pc \in {"decide", "loop", "start"} /\ stop = "none")

\* "</" and "complete>" came in two consecutive chunks and the loop is at
\* the next run_thread call
C23_Witness ==
    /\ sessions[1].stream.items = <<Assistant(JsonText(<<"</">>)),
                                    Assistant(JsonText(<<"complete>">>))>>
    /\ Contains(JoinedText(sessions[1].stream.items), CompleteTag)
    /\ delivered = sessions[1].stream.items
    /\ pc = "start"
    /\ continue_execution
    /\ last_tool_call = "none"

C25_NoUserIdStartsSession ==
    (user_id = "none" /\ pc \in Terminal) =>
        (billing_calls = 0 /\ sessions # <<>>)

\* ------------------------------------------------------------------------
\* C26
\* ------------------------------------------------------------------------
\* the places of the thread where call c added a record of the type
Added(c, type) ==
    {i \in 1..Len(thread) : thread[i].by = c /\ thread[i].type = type}

\* C26: however the calls interleave, every response record comes after
\* the request record of the same call and names that record's identifier;
\* a call adds at most one record of each type; and a call that has
\* returned has a result: success with both its records in the thread, or
\* an error.
C26_AskHumanRecords ==
    /\ \A j \in 1..Len(thread) :
          thread[j].type = "human_assistance_response" =>
              \E i \in 1..(j - 1) :
                  /\ thread[i].type = "human_assistance_request"
                  /\ thread[i].by = thread[j].by
                  /\ thread[j].content.request_id = thread[i].message_id
    /\ \A c \in DOMAIN calls :
          /\ Cardinality(Added(c, "human_assistance_request")) <= 1
          /\ Cardinality(Added(c, "human_assistance_response")) <= 1
          /\ calls[c].pc = "returned" => calls[c].result \in {"output", "error"}
          /\ calls[c].result = "output" =>
                /\ calls[c].pc = "returned"
                /\ Added(c, "human_assistance_request") # {}
                /\ Added(c, "human_assistance_response") # {}
          /\ calls[c].result = "error" =>
                Added(c, "human_assistance_response") = {}

\* two calls interleaved: request 1, request 2, response 1, response 2
C26_Witness ==
    /\ Len(thread) = 4
    /\ thread[1].by = 1 /\ thread[2].by = 2
    /\ thread[3].by = 1 /\ thread[4].by = 2
    /\ thread[3].content.request_id = 1
    /\ \A c \in DOMAIN calls : calls[c].result = "output"

\* ------------------------------------------------------------------------
\* C27
\* ------------------------------------------------------------------------
\* the stored step shows the update of call c
ShowsUpdate(c) ==
    LET step == plan_file.steps[calls[c].step_index]
    IN  /\ step.status = calls[c].status
        /\ step.updated_at = c
        /\ calls[c].notes # "" => step.notes = calls[c].notes

\* C27: a call that has returned success, and whose step no other
\* successful call has updated, finds its update in the stored plan,
\* whatever the other call has done meanwhile; so when both calls have
\* succeeded on different steps both updates are stored.
C27_NoLostUpdate ==
    \A c \in DOMAIN calls :
        (/\ calls[c].result = "output"
         /\ \A d \in DOMAIN calls \ {c} :
               calls[d].result = "output" =>
                   calls[d].step_index # calls[c].step_index)
            => (plan_file.exists /\ ShowsUpdate(c))

\* both calls have succeeded, on steps 1 and 2
C27_Witness ==
    /\ calls["a"].result = "output" /\ calls["a"].step_index = 1
    /\ calls["b"].result = "output" /\ calls["b"].step_index = 2
    /\ plan_file.steps[1].updated_at = "a"
    /\ plan_file.steps[2].updated_at = "b"

\* ------------------------------------------------------------------------
\* C28
\* ------------------------------------------------------------------------
\* C28: the step in which a call returns either fails and leaves the plan
\* file as it was, which it does whenever the plan is not there or
\* step_index is outside 1..number of steps, or succeeds and changes the
\* step at step_index alone: its status and updated_at, its notes when
\* given, with its description and all other steps as before; no other step
\* of a call changes the file.
C28_UpdateFrame ==
    [][ /\ \A c \in DOMAIN calls :
              (calls[c].pc = "update" /\ calls'[c].pc = "returned") =>
                  LET i == calls[c].step_index
                  IN  IF calls'[c].result = "error"
                      THEN plan_file' = plan_file
                      ELSE /\ plan_file.exists /\ plan_file'.exists
                           /\ i \in 1..Len(plan_file.steps)
                           /\ Len(plan_file'.steps) = Len(plan_file.steps)
                           /\ \A k \in 1..Len(plan_file.steps) :
                                 k # i => plan_file'.steps[k] = plan_file.steps[k]
                           /\ plan_file'.steps[i].description
                                 = plan_file.steps[i].description
                           /\ plan_file'.steps[i].status = calls[c].status
                           /\ plan_file'.steps[i].notes =
                                 IF calls[c].notes # "" THEN calls[c].notes
                                 ELSE plan_file.steps[i].notes
        /\ \A c \in DOMAIN calls :
              (/\ calls'[c].result = "output"
               /\ calls[c].result # "output") =>
                  /\ plan_file.exists
                  /\ calls[c].step_index \in 1..Len(plan_file.steps)
        /\ plan_file' # plan_file =>
              \E c \in DOMAIN calls :
                  calls[c].pc = "update" /\ calls'[c].result = "output" ]_vars

\* one call failed for step_index 3 of a plan of two steps, the other
\* updated step 2 without notes and left step 1 as it was
C28_Witness ==
    /\ calls["a"].result = "error" /\ calls["a"].step_index = MaxSteps + 1
    /\ calls["a"].pc = "returned"
    /\ calls["b"].result = "output" /\ calls["b"].step_index = MaxSteps
    /\ calls["b"].notes = ""
    /\ plan_file.steps[MaxSteps].status = "completed"
    /\ plan_file.steps[MaxSteps].notes = "none"
    /\ plan_file.steps[1] = StoredPlan(MaxSteps).steps[1]

\* ------------------------------------------------------------------------
\* C29
\* ------------------------------------------------------------------------
\* C29: whenever no action is running, current_url, current_page_content
\* and current_page_title are of one page (or all unset), as they must be
\* if a navigate_to that returns an error leaves the three as they were.
C29_PageFieldsAgree ==
    Idle =>
        /\ browser.current_page_content = browser.current_url
        /\ browser.current_page_title = browser.current_url

\* ------------------------------------------------------------------------
\* C30
\* ------------------------------------------------------------------------
\* C30: a call that has returned has left no row of its temporary thread in
\* the threads table or in the messages table.
C30_NoTemporaryRowsLeft ==
    \A c \in DOMAIN calls :
        calls[c].pc = "returned" =>
            /\ c \notin db.threads
            /\ \A m \in db.messages : m[1] # c

====
